---- MODULE Spec2Model ----
(***************************************************************************)
(* Model of aioxmpp's entity-capabilities service (Cache and               *)
(* EntityCapsService in aioxmpp/entitycaps/service.py) and of the tag      *)
(* dispatcher (asyncio_xmpp/callbacks.py).                                 *)
(*                                                                         *)
(* Three specifications share the module:                                  *)
(*   Spec        the cache, the lookup_info coroutines and the asyncio     *)
(*               event loop that runs them;                                *)
(*   SpecStore   the synchronous Cache API on its own (store tiers);       *)
(*   SpecEngine  update_hash and the advertisement endpoints;              *)
(*   SpecDisp    TagDispatcher.                                            *)
(***************************************************************************)
EXTENDS Integers, Sequences, FiniteSets, TLC

VARIABLES
    lookup_cache,    \* Cache._lookup_cache: key -> registered future (0: none)
    memory_overlay,  \* Cache._memory_overlay: key -> entry (0: none)
    system_db_path,  \* Cache._system_db_path
    user_db_path,    \* Cache._user_db_path
    fs,              \* the file system: directory -> key path -> file content (0: no file)
    tmpfiles,        \* temporary files left in a directory by writeback
    wbjobs,          \* writeback calls handed to the executor, not yet run
    wbdone,          \* outcome of the executor jobs that ran
    futs,            \* the futures made by create_query_future, by creating task
    tasks,           \* the lookup_info coroutines (asyncio tasks); aw is the
                     \* future a task last waited on, lk what its
                     \* Cache.lookup calls ended with, cold whether no
                     \* store tier held any of its keys when it was made,
                     \* conc whether no earlier call had ended by then
    ready,           \* the event loop's FIFO of callbacks (call_soon)
    nreconf,         \* number of store path reconfigurations so far
    ncancel,         \* number of Task.cancel() calls so far
    dbres,           \* what the last direct lookup_in_database call returned
    nadd,            \* number of direct add_cache_entry calls so far
    current_keys,    \* EntityCapsService.__current_keys: scheme -> set of keys
    xep115_support,  \* EntityCapsService.xep115_support
    xep390_support,  \* EntityCapsService.xep390_support
    local_info,      \* the feature description the disco server announces
    mounted,         \* the nodes mounted on the disco server
    mount_calls,     \* node -> number of disco_server.mount_node calls
    unmount_calls,   \* node -> number of disco_server.unmount_node calls
    ver_changed,     \* number of on_ver_changed emissions
    nupdates,        \* number of update_hash runs
    shut,            \* whether _shutdown has run
    handled,         \* the presence the presence filters handled last: its
                     \* direction and type, the schemes whose marker was
                     \* put on it (outbound), the keys extracted (inbound)
    listeners,       \* TagDispatcher._listeners: tag -> listener (NoListener: none)
    calls,           \* the callback invocations made so far, in order
    raised,          \* the exception the last dispatcher call raised ("": none)
    nops,            \* number of dispatcher calls so far
    sched,           \* the callbacks the listeners scheduled with call_soon
    signals,         \* what the listener methods called by the last
                     \* dispatcher call returned, in call order, each
                     \* with the listener's tag
    last             \* the last dispatcher call: its name, its tag and
                     \* the data or the error it was given

cacheVars == <<lookup_cache, memory_overlay, system_db_path, user_db_path>>
diskVars == <<fs, tmpfiles, wbjobs, wbdone>>
loopVars == <<futs, tasks, ready>>
countVars == <<nreconf, ncancel>>
apiVars == <<dbres, nadd>>
engineVars == <<current_keys, xep115_support, xep390_support, local_info,
                mounted, mount_calls, unmount_calls, ver_changed, nupdates,
                handled, shut>>
dispVars == <<listeners, calls, raised, nops, sched, signals, last>>
restVars == <<apiVars, engineVars, dispVars>>
vars == <<cacheVars, diskVars, loopVars, countVars, restVars>>

-----------------------------------------------------------------------------
(* Bounds of the model *)

NTasks == 3
MaxReconf == 2
MaxCancel == 1

Tasks == 1..NTasks

(* Capability keys: scheme, hash algorithm and hash value; key.node and    *)
(* key.path are both determined by the three fields, so the key itself     *)
(* stands for its node locator and for its relative storage path.          *)
K1 == [scheme |-> "390", algo |-> "sha256", hash |-> 1]
K2 == [scheme |-> "115", algo |-> "sha1", hash |-> 1]
K3 == [scheme |-> "390", algo |-> "sha3_256", hash |-> 1]
Keys == {K1, K2, K3}
KeyLists == {<<K1>>, <<K2>>, <<K1, K2>>, <<K2, K1>>}

(* Feature descriptions (disco InfoQuery payloads). *)
Infos == {1, 2, 3}

(* Directories a store path can name; "nodir" does not exist. *)
Paths == {"sysdir", "userdir", "nodir"}
None == "None"

(* The hash of a feature description: two descriptions may differ in parts *)
(* the hash does not cover.                                                *)
HashInfo(algo, info) == info % 2

(* key.verify(data) *)
Verify(key, data) == HashInfo(key.algo, data) = key.hash

-----------------------------------------------------------------------------
(* Cache: the store tiers *)

(* Opening base / key.path for reading: the file's content, 0 for OSError. *)
OpenFile(base, key) == fs[base][key]

(* Cache.lookup_in_database: overlay, then system store, then user store;  *)
(* 0 stands for KeyError.                                                  *)
LookupInDatabaseUserFirst(key) ==
    IF memory_overlay[key] # 0 THEN memory_overlay[key]
    ELSE IF user_db_path # None /\ OpenFile(user_db_path, key) # 0
         THEN OpenFile(user_db_path, key)
    ELSE IF system_db_path # None /\ OpenFile(system_db_path, key) # 0
         THEN OpenFile(system_db_path, key)
    ELSE 0

LookupInDatabase(key) ==
    IF memory_overlay[key] # 0 THEN memory_overlay[key]
    ELSE IF system_db_path # None /\ OpenFile(system_db_path, key) # 0
         THEN OpenFile(system_db_path, key)
    ELSE IF user_db_path # None /\ OpenFile(user_db_path, key) # 0
         THEN OpenFile(user_db_path, key)
    ELSE 0

(* Cache.set_system_db_path / set_user_db_path *)
SetSystemDbPath(path) ==
    /\ nreconf < MaxReconf
    /\ nreconf' = nreconf + 1
    /\ system_db_path' = path
    /\ UNCHANGED <<lookup_cache, memory_overlay, user_db_path, diskVars,
                   loopVars, ncancel, restVars>>

SetUserDbPath(path) ==
    /\ nreconf < MaxReconf
    /\ nreconf' = nreconf + 1
    /\ user_db_path' = path
    /\ UNCHANGED <<lookup_cache, memory_overlay, system_db_path, diskVars,
                   loopVars, ncancel, restVars>>

(* The positional arguments add_cache_entry hands to the executor for      *)
(* writeback: the destination path and the captured events.                *)
WritebackArgsFull(key, entry) ==
    <<user_db_path, key.algo, key, entry>>

WritebackArgs(key, entry) ==
    <<[base |-> user_db_path, path |-> key], entry>>

(* Cache.add_cache_entry: the overlay is written at once, the durable      *)
(* write is handed to the executor when a user store is configured.  id    *)
(* tells the executor jobs apart.                                          *)
AddCacheEntry(key, entry, id) ==
    /\ memory_overlay' = [memory_overlay EXCEPT ![key] = entry]
    /\ wbjobs' = IF user_db_path # None
                 THEN wbjobs \cup {[id |-> id, args |-> WritebackArgs(key, entry)]}
                 ELSE wbjobs

(* writeback(base_path, hash_, node, captured_events), run by an executor  *)
(* thread.  how is what happens inside: "ok", "gen" (generating the        *)
(* document raises) or "replace" (os.replace raises); a directory that     *)
(* does not exist makes NamedTemporaryFile raise before anything is made.  *)
WritebackBody(id, base_path, hash_, node, captured_events, how) ==
    IF base_path = "nodir"
    THEN /\ wbdone' = wbdone \cup {[id |-> id, dir |-> base_path, key |-> node, outcome |-> "OSError"]}
         /\ UNCHANGED <<fs, tmpfiles>>
    ELSE IF how = "gen"
    THEN /\ wbdone' = wbdone \cup {[id |-> id, dir |-> base_path, key |-> node, outcome |-> "error"]}
         /\ UNCHANGED <<fs, tmpfiles>>
    ELSE IF how = "replace"
    THEN /\ wbdone' = wbdone \cup {[id |-> id, dir |-> base_path, key |-> node, outcome |-> "OSError"]}
         /\ tmpfiles' = tmpfiles \cup {[dir |-> base_path, id |-> id]}
         /\ UNCHANGED fs
    ELSE /\ wbdone' = wbdone \cup {[id |-> id, dir |-> base_path, key |-> node, outcome |-> "ok"]}
         /\ fs' = [fs EXCEPT ![base_path][node] = captured_events]
         /\ UNCHANGED tmpfiles

Writeback(id, base_path, hash_, node, captured_events) ==
    \E how \in {"ok", "gen", "replace"} :
        WritebackBody(id, base_path, hash_, node, captured_events, how)

(* The executor calls writeback with the job's arguments: a call whose     *)
(* argument count is not                                                   *)
(* that of the function raises TypeError before the body runs.             *)
ExecWriteback(job) ==
    /\ job \in wbjobs
    /\ wbjobs' = wbjobs \ {job}
    /\ IF Len(job.args) # 4
       THEN /\ wbdone' = wbdone \cup {[id |-> job.id, dir |-> job.args[1].base,
                                       key |-> job.args[1].path,
                                       outcome |-> "TypeError"]}
            /\ UNCHANGED <<fs, tmpfiles>>
       ELSE Writeback(job.id, job.args[1], job.args[2], job.args[3],
                      job.args[4])
    /\ UNCHANGED <<cacheVars, loopVars, countVars, restVars>>

-----------------------------------------------------------------------------
(* Cache: the registry of pending lookups, and the futures *)

(* erased is what the future's _erase_future callback found when it ran:   *)
(* "" (it has not run), "removed" (the future was the registered one),     *)
(* "stale" (another future was registered) or "absent" (none was).         *)
NoFuture == [state |-> "none", key |-> K1, val |-> 0, waiters |-> <<>>,
             erased |-> ""]

(* Cache._erase_future(key, fut), the done callback of a query future. *)
EraseFutureAlways(key, fut) ==
    lookup_cache' = [lookup_cache EXCEPT ![key] = 0]

EraseFuture(key, fut) ==
    lookup_cache' = IF lookup_cache[key] # 0 /\ lookup_cache[key] = fut
                    THEN [lookup_cache EXCEPT ![key] = 0]
                    ELSE lookup_cache

(* Cache.create_query_future(key); the new future is named after the task *)
(* that makes it (a lookup_info call makes at most one).                   *)
CreateQueryFuture(key, fut) ==
    /\ futs' = [futs EXCEPT ![fut] = [state |-> "pending", key |-> key,
                                      val |-> 0, waiters |-> <<>>,
                                      erased |-> ""]]
    /\ lookup_cache' = [lookup_cache EXCEPT ![key] = fut]

(* The callbacks a future schedules with call_soon when it is settled or   *)
(* cancelled: its done callbacks in the order they were added, which is    *)
(* _erase_future first and then the wakeup of each waiting task.           *)
DoneCallbacks(fut) ==
    <<[type |-> "erase", id |-> fut]>> \o
    [i \in 1..Len(futs[fut].waiters) |->
        [type |-> "step", id |-> futs[fut].waiters[i]]]

Waiters(fut) == {futs[fut].waiters[i] : i \in 1..Len(futs[fut].waiters)}

Settled(fut, state, val) ==
    [futs EXCEPT ![fut].state = state, ![fut].val = val, ![fut].waiters = <<>>]

-----------------------------------------------------------------------------
(* Cache.lookup and EntityCapsService.lookup_info, as far as they run      *)
(* without suspending                                                      *)

Out(kind, idx, fut, info, err, lk) ==
    [kind |-> kind, idx |-> idx, fut |-> fut, info |-> info, err |-> err,
     lk |-> lk]

Logged(lk, key, out) == Append(lk, [key |-> key, out |-> out])

RECURSIVE ForLoop(_, _, _), WhileLoop(_, _, _)

(* Cache.lookup's while loop for keys[i], entered after a store miss or    *)
(* re-entered after a ValueError.  A registered future that has already    *)
(* failed with ValueError is returned by the registry again and again and  *)
(* raises at once each time: the loop never suspends and never ends.       *)
WhileLoop(keys, i, lk) ==
    LET key == keys[i]
        f == lookup_cache[key]
    IN  IF f = 0
        THEN ForLoop(keys, i + 1, Logged(lk, key, "KeyError"))
        ELSE CASE futs[f].state = "pending" ->
                      Out("wait", i, f, 0, "", lk)
               [] futs[f].state = "result" ->
                      Out("return", i, f, futs[f].val, "",
                          Logged(lk, key, "result"))
               [] futs[f].state = "exception" ->
                      Out("spin", i, f, 0, "", lk)
               [] OTHER ->
                      Out("raise", i, f, 0, "CancelledError",
                          Logged(lk, key, "CancelledError"))

ForLoopBreak(keys, i, lk) ==
    IF i > Len(keys)
    THEN Out("query", 1, 0, 0, "", lk)
    ELSE LET r == LookupInDatabase(keys[i])
         IN  IF r # 0
             THEN Out("return", i, 0, r, "", Logged(lk, keys[i], "hit"))
             ELSE IF i > 1 THEN Out("query", 1, 0, 0, "", lk)
             ELSE WhileLoop(keys, i, lk)

(* lookup_info's for loop from keys[i] on: Cache.lookup(keys[i]), KeyError *)
(* moves on to the next key, and after the last key the live query is due. *)
ForLoop(keys, i, lk) ==
    IF i > Len(keys)
    THEN Out("query", 1, 0, 0, "", lk)
    ELSE LET r == LookupInDatabase(keys[i])
         IN  IF r # 0
             THEN Out("return", i, 0, r, "", Logged(lk, keys[i], "hit"))
             ELSE WhileLoop(keys, i, lk)

(* Cache.lookup resumed with the ValueError of the future it waited on. *)
OnValueErrorRaise(keys, i, lk) ==
    Out("raise", i, 0, 0, "ValueError", Logged(lk, keys[i], "ValueError"))

OnValueError(keys, i, lk) == WhileLoop(keys, i, lk)

(* Cache.lookup resumed by the future it waited on. *)
ResumeLookup(tk) ==
    LET f == tk.aw
    IN  CASE futs[f].state = "result" ->
                 Out("return", tk.idx, f, futs[f].val, "",
                     Logged(tk.lk, tk.keys[tk.idx], "result"))
          [] futs[f].state = "exception" ->
                 OnValueError(tk.keys, tk.idx, tk.lk)
          [] OTHER ->
                 Out("raise", tk.idx, f, 0, "CancelledError",
                     Logged(tk.lk, tk.keys[tk.idx], "CancelledError"))

-----------------------------------------------------------------------------
(* The tasks and the event loop *)

NewTask == [pc |-> "new", keys |-> <<>>, idx |-> 0, aw |-> 0, res |-> 0,
            err |-> "", resp |-> 0, lk |-> <<>>,
            cold |-> FALSE, conc |-> FALSE]

(* An infinite loop inside a callback: the event loop never gets control   *)
(* back and runs nothing else.                                             *)
Hung == \E t \in Tasks : tasks[t].pc = "spin"

Finished(tk, pc, res, err, lk) ==
    [tk EXCEPT !.pc = pc, !.res = res, !.err = err, !.lk = lk]

(* The tasks waiting on a settled future are woken: their next step is     *)
(* scheduled.                                                              *)
WakeAll(ts, waiters) ==
    [x \in Tasks |-> IF x \in waiters THEN [ts[x] EXCEPT !.pc = "wake_fut"]
                     ELSE ts[x]]

(* handle_inbound_presence: asyncio.async(self.lookup_info(from_, keys))   *)
(* schedules the first step of a new task.                                 *)
StartLookup(t, keys) ==
    /\ ~Hung
    /\ tasks[t].pc = "new"
    /\ \A u \in Tasks : u < t => tasks[u].pc # "new"
    /\ tasks' = [tasks EXCEPT ![t] =
                    [@ EXCEPT !.pc = "start", !.keys = keys,
                              !.cold = \A i \in 1..Len(keys) :
                                          LookupInDatabase(keys[i]) = 0,
                              !.conc = \A u \in Tasks :
                                          tasks[u].pc \notin
                                              {"done", "failed", "cancelled"}]]
    /\ ready' = Append(ready, [type |-> "step", id |-> t])
    /\ UNCHANGED <<cacheVars, diskVars, futs, countVars, restVars>>

(* The event loop runs the done callback _erase_future of a future. *)
RunErase ==
    /\ ~Hung
    /\ ready # <<>>
    /\ Head(ready).type = "erase"
    /\ LET f == Head(ready).id
       IN  /\ EraseFuture(futs[f].key, f)
           /\ futs' = [futs EXCEPT ![f].erased =
                           IF lookup_cache[futs[f].key] = f THEN "removed"
                           ELSE IF lookup_cache[futs[f].key] = 0 THEN "absent"
                           ELSE "stale"]
    /\ ready' = Tail(ready)
    /\ UNCHANGED <<memory_overlay, system_db_path, user_db_path, diskVars,
                   tasks, countVars, restVars>>

(* The event loop runs a step of lookup_info(jid, keys): from its start,   *)
(* or from the future Cache.lookup waited on, up to the next suspension.   *)
RunCoroutine(t) ==
    /\ ~Hung
    /\ ready # <<>>
    /\ Head(ready) = [type |-> "step", id |-> t]
    /\ tasks[t].pc \in {"start", "wake_fut"}
    /\ LET tk == tasks[t]
           out == IF tk.pc = "start"
                  THEN ForLoop(tk.keys, 1, tk.lk)
                  ELSE ResumeLookup(tk)
       IN  CASE out.kind = "return" ->
                    /\ tasks' = [tasks EXCEPT ![t] =
                                    Finished(tk, "done", out.info, "", out.lk)]
                    /\ UNCHANGED <<futs, lookup_cache>>
             [] out.kind = "raise" ->
                    /\ tasks' = [tasks EXCEPT ![t] =
                                    Finished(tk,
                                             IF out.err = "CancelledError"
                                             THEN "cancelled" ELSE "failed",
                                             0, out.err, out.lk)]
                    /\ UNCHANGED <<futs, lookup_cache>>
             [] out.kind = "spin" ->
                    /\ tasks' = [tasks EXCEPT ![t] =
                                    [tk EXCEPT !.pc = "spin", !.idx = out.idx,
                                               !.aw = out.fut, !.lk = out.lk]]
                    /\ UNCHANGED <<futs, lookup_cache>>
             [] out.kind = "wait" ->
                    /\ tasks' = [tasks EXCEPT ![t] =
                                    [tk EXCEPT !.pc = "wait_fut",
                                               !.idx = out.idx,
                                               !.aw = out.fut, !.lk = out.lk]]
                    /\ futs' = [futs EXCEPT ![out.fut].waiters = Append(@, t)]
                    /\ UNCHANGED lookup_cache
             [] OTHER ->
                    \* every key missed: first_key = keys[0], the pending
                    \* future is registered and query_info is called
                    /\ CreateQueryFuture(tk.keys[1], t)
                    /\ tasks' = [tasks EXCEPT ![t] =
                                    [tk EXCEPT !.pc = "wait_query", !.idx = 1,
                                               !.lk = out.lk]]
    /\ ready' = Tail(ready)
    /\ UNCHANGED <<memory_overlay, system_db_path, user_db_path, diskVars,
                   countVars, restVars>>

(* disco_client.query_info answers: the task that awaits it is woken with  *)
(* the feature description (QueryRespond) or with a transport or timeout   *)
(* error (QueryFail, resp = -1).                                           *)
QueryRespond(t, data) ==
    /\ ~Hung
    /\ tasks[t].pc = "wait_query"
    /\ tasks' = [tasks EXCEPT ![t] = [@ EXCEPT !.pc = "wake_query",
                                               !.resp = data]]
    /\ ready' = Append(ready, [type |-> "step", id |-> t])
    /\ UNCHANGED <<cacheVars, diskVars, futs, countVars, restVars>>

QueryFail(t) ==
    /\ ~Hung
    /\ tasks[t].pc = "wait_query"
    /\ tasks' = [tasks EXCEPT ![t] = [@ EXCEPT !.pc = "wake_query",
                                               !.resp = -1]]
    /\ ready' = Append(ready, [type |-> "step", id |-> t])
    /\ UNCHANGED <<cacheVars, diskVars, futs, countVars, restVars>>

QueryAndCacheUnverified(t, key, fut, data) ==
    LET tk == tasks[t]
        dead == futs[fut].state # "pending"
    IN  /\ AddCacheEntry(key, data, t)
        /\ IF dead
           THEN /\ tasks' = [tasks EXCEPT ![t] =
                                Finished(tk, "failed", 0, "InvalidStateError",
                                         tk.lk)]
                /\ ready' = Tail(ready)
                /\ UNCHANGED futs
           ELSE /\ futs' = IF Verify(key, data)
                           THEN Settled(fut, "result", data)
                           ELSE Settled(fut, "exception", 0)
                /\ ready' = Tail(ready) \o DoneCallbacks(fut)
                /\ tasks' = [WakeAll(tasks, Waiters(fut)) EXCEPT ![t] =
                                Finished(tk, "done", data, "", tk.lk)]

(* EntityCapsService.query_and_cache(jid, key, fut) from the point where   *)
(* query_info has returned data, to its end; t is the task running it.     *)
(* Setting a future that a cancellation has already settled raises         *)
(* InvalidStateError, which is no ValueError and leaves the coroutine.     *)
QueryAndCache(t, key, fut, data) ==
    LET tk == tasks[t]
        dead == futs[fut].state # "pending"
    IN  /\ IF Verify(key, data)
           THEN AddCacheEntry(key, data, t)
           ELSE UNCHANGED <<memory_overlay, wbjobs>>
        /\ IF dead
           THEN /\ tasks' = [tasks EXCEPT ![t] =
                                Finished(tk, "failed", 0, "InvalidStateError",
                                         tk.lk)]
                /\ ready' = Tail(ready)
                /\ UNCHANGED futs
           ELSE /\ futs' = IF Verify(key, data)
                           THEN Settled(fut, "result", data)
                           ELSE Settled(fut, "exception", 0)
                /\ ready' = Tail(ready) \o DoneCallbacks(fut)
                /\ tasks' = [WakeAll(tasks, Waiters(fut)) EXCEPT ![t] =
                                Finished(tk, "done", data, "", tk.lk)]

(* The event loop resumes lookup_info inside query_and_cache. *)
RunQueryAndCache(t) ==
    /\ ~Hung
    /\ ready # <<>>
    /\ Head(ready) = [type |-> "step", id |-> t]
    /\ tasks[t].pc = "wake_query"
    /\ LET tk == tasks[t]
       IN  IF tk.resp = -1
           THEN /\ tasks' = [tasks EXCEPT ![t] =
                                Finished(tk, "failed", 0, "TransportError",
                                         tk.lk)]
                /\ ready' = Tail(ready)
                /\ UNCHANGED <<futs, memory_overlay, wbjobs>>
           ELSE QueryAndCache(t, tk.keys[1], t, tk.resp)
    /\ UNCHANGED <<lookup_cache, system_db_path, user_db_path, fs, tmpfiles,
                   wbdone, countVars, restVars>>

-----------------------------------------------------------------------------
(* Task.cancel() on a lookup_info task *)

(* The task is suspended in Cache.lookup on a future: Task.cancel() calls  *)
(* cancel() of the future the task waits on (lookup awaits the registered  *)
(* future itself, not a shield of it), which settles that future as        *)
(* cancelled and schedules its done callbacks.                             *)
CancelFutureWaiter(t) ==
    LET f == tasks[t].aw
    IN  /\ futs' = Settled(f, "cancelled", 0)
        /\ ready' = ready \o DoneCallbacks(f)
        /\ tasks' = WakeAll(tasks, Waiters(f))

CancelWaiter(t) ==
    /\ ~Hung
    /\ ncancel < MaxCancel
    /\ tasks[t].pc = "wait_fut"
    /\ CancelFutureWaiter(t)
    /\ ncancel' = ncancel + 1
    /\ UNCHANGED <<cacheVars, diskVars, nreconf, restVars>>

-----------------------------------------------------------------------------
(* Direct calls of the synchronous Cache API *)

MaxAdd == 2

(* No call yet. *)
NoRes == [key |-> K1, val |-> -1]

(* A caller runs Cache.lookup_in_database(key) and keeps what it returned  *)
(* (val = 0: it raised KeyError).                                          *)
LookupInDatabaseCall(key) ==
    /\ dbres' = [key |-> key, val |-> LookupInDatabase(key)]
    /\ UNCHANGED <<cacheVars, diskVars, loopVars, countVars, nadd,
                   engineVars, dispVars>>

(* A caller runs Cache.add_cache_entry(key, entry). *)
AddCacheEntryCall(key, entry) ==
    /\ nadd < MaxAdd
    /\ nadd' = nadd + 1
    /\ AddCacheEntry(key, entry, NTasks + nadd + 1)
    /\ UNCHANGED <<lookup_cache, system_db_path, user_db_path, fs, tmpfiles,
                   wbdone, loopVars, countVars, dbres, engineVars, dispVars>>

(* A caller runs writeback(base_path, hash_, node, captured_events) with   *)
(* the arguments of its signature.                                         *)
WritebackCall(base_path, key, entry) ==
    /\ nadd < MaxAdd
    /\ nadd' = nadd + 1
    /\ Writeback(NTasks + nadd + 1, base_path, key.algo, key, entry)
    /\ UNCHANGED <<cacheVars, wbjobs, loopVars, countVars, dbres, engineVars,
                   dispVars>>

-----------------------------------------------------------------------------
(* EntityCapsService: the local key set and the advertisement endpoints *)

MaxUpdates == 3

Schemes == {"115", "390"}

(* aioxmpp.hashes.default_hash_algorithms, used by the XEP-0390 keys. *)
Algos390 == {"sha256", "sha3_256"}

(* Implementation.calculate_keys(info): one key per hash algorithm of the  *)
(* scheme.                                                                 *)
CalculateKeys(scheme, info) ==
    IF scheme = "115"
    THEN {[scheme |-> "115", algo |-> "sha1", hash |-> HashInfo("sha1", info)]}
    ELSE {[scheme |-> "390", algo |-> a, hash |-> HashInfo(a, info)] :
              a \in Algos390}

(* key.node: XEP-0115 names the node by the hash value alone, XEP-0390 by  *)
(* algorithm and hash value.                                               *)
Node(key) ==
    IF key.scheme = "115" THEN <<"115", key.hash>>
    ELSE <<"390", key.algo, key.hash>>

LocalKeys == UNION {CalculateKeys(sc, i) : sc \in Schemes, i \in Infos}
Nodes == {Node(k) : k \in LocalKeys}

KeysOf(groups) == UNION {groups[sc] : sc \in DOMAIN groups}
NodesOf(groups) == {Node(k) : k \in KeysOf(groups)}

(* new_keys as update_hash computes it from the flags and the current info *)
NewKeys ==
    [sc \in {x \in Schemes : IF x = "115" THEN xep115_support
                             ELSE xep390_support}
        |-> CalculateKeys(sc, local_info)]

Bump(counts, nodes) ==
    [n \in Nodes |-> IF n \in nodes THEN counts[n] + 1 ELSE counts[n]]

(* EntityCapsService.update_hash *)
UpdateHashAlways ==
    /\ nupdates < MaxUpdates
    /\ nupdates' = nupdates + 1
    /\ unmount_calls' = Bump(unmount_calls, NodesOf(current_keys))
    /\ current_keys' = NewKeys
    /\ mount_calls' = Bump(mount_calls, NodesOf(NewKeys))
    /\ mounted' = (mounted \ NodesOf(current_keys)) \cup NodesOf(NewKeys)
    /\ ver_changed' = ver_changed + 1
    /\ UNCHANGED <<xep115_support, xep390_support, local_info, handled,
                   shut>>
    /\ UNCHANGED <<cacheVars, diskVars, loopVars, countVars, apiVars, dispVars>>

UpdateHashDiff ==
    /\ nupdates < MaxUpdates
    /\ nupdates' = nupdates + 1
    /\ IF current_keys = NewKeys
       THEN UNCHANGED <<current_keys, mounted, mount_calls, unmount_calls,
                        ver_changed>>
       ELSE /\ unmount_calls' = Bump(unmount_calls,
                                     NodesOf(current_keys) \ NodesOf(NewKeys))
            /\ current_keys' = NewKeys
            /\ mount_calls' = Bump(mount_calls,
                                   NodesOf(NewKeys) \ NodesOf(current_keys))
            /\ mounted' = (mounted \ NodesOf(current_keys)) \cup NodesOf(NewKeys)
            /\ ver_changed' = ver_changed + 1
    /\ UNCHANGED <<xep115_support, xep390_support, local_info, handled,
                   shut>>
    /\ UNCHANGED <<cacheVars, diskVars, loopVars, countVars, apiVars, dispVars>>

UpdateHashNoUnmount ==
    /\ nupdates < MaxUpdates
    /\ nupdates' = nupdates + 1
    /\ IF current_keys = NewKeys
       THEN UNCHANGED <<current_keys, mounted, mount_calls, unmount_calls,
                        ver_changed>>
       ELSE /\ unmount_calls' = Bump(unmount_calls, NodesOf(current_keys))
            /\ current_keys' = NewKeys
            /\ mount_calls' = Bump(mount_calls, NodesOf(NewKeys))
            /\ mounted' = mounted \cup NodesOf(NewKeys)
            /\ ver_changed' = ver_changed + 1
    /\ UNCHANGED <<xep115_support, xep390_support, local_info, handled,
                   shut>>
    /\ UNCHANGED <<cacheVars, diskVars, loopVars, countVars, apiVars, dispVars>>

UpdateHash ==
    /\ nupdates < MaxUpdates
    /\ nupdates' = nupdates + 1
    /\ IF current_keys = NewKeys
       THEN UNCHANGED <<current_keys, mounted, mount_calls, unmount_calls,
                        ver_changed>>
       ELSE /\ unmount_calls' = Bump(unmount_calls, NodesOf(current_keys))
            /\ current_keys' = NewKeys
            /\ mount_calls' = Bump(mount_calls, NodesOf(NewKeys))
            /\ mounted' = (mounted \ NodesOf(current_keys)) \cup NodesOf(NewKeys)
            /\ ver_changed' = ver_changed + 1
    /\ UNCHANGED <<xep115_support, xep390_support, local_info, handled,
                   shut>>
    /\ UNCHANGED <<cacheVars, diskVars, loopVars, countVars, apiVars, dispVars>>

(* EntityCapsService._shutdown: the node of every current key is          *)
(* unmounted; __current_keys is left as it is.                             *)
Shutdown ==
    /\ ~shut
    /\ shut' = TRUE
    /\ unmount_calls' = Bump(unmount_calls, NodesOf(current_keys))
    /\ mounted' = mounted \ NodesOf(current_keys)
    /\ UNCHANGED <<current_keys, xep115_support, xep390_support, local_info,
                   mount_calls, ver_changed, nupdates, handled>>
    /\ UNCHANGED <<cacheVars, diskVars, loopVars, countVars, apiVars, dispVars>>

(* The xep115_support / xep390_support setters. *)
SetXep115Support(value) ==
    /\ xep115_support # value
    /\ xep115_support' = value
    /\ UNCHANGED <<current_keys, xep390_support, local_info, mounted,
                   mount_calls, unmount_calls, ver_changed, nupdates, handled,
                   shut>>
    /\ UNCHANGED <<cacheVars, diskVars, loopVars, countVars, apiVars, dispVars>>

SetXep390Support(value) ==
    /\ xep390_support # value
    /\ xep390_support' = value
    /\ UNCHANGED <<current_keys, xep115_support, local_info, mounted,
                   mount_calls, unmount_calls, ver_changed, nupdates, handled,
                   shut>>
    /\ UNCHANGED <<cacheVars, diskVars, loopVars, countVars, apiVars, dispVars>>

(* The application registers or removes features: the disco server's info  *)
(* changes.                                                                *)
InfoChanged(info) ==
    /\ local_info # info
    /\ local_info' = info
    /\ UNCHANGED <<current_keys, xep115_support, xep390_support, mounted,
                   mount_calls, unmount_calls, ver_changed, nupdates, handled,
                   shut>>
    /\ UNCHANGED <<cacheVars, diskVars, loopVars, countVars, apiVars, dispVars>>

(* The scheme's enable flag. *)
Support(scheme) == IF scheme = "115" THEN xep115_support ELSE xep390_support

PresenceTypes == {"available", "unavailable"}
NoPresence == [dir |-> "", type |-> "", markers |-> {}, keys |-> <<>>,
               task |-> 0]

(* What an inbound presence carries: the XEP-0390 keys of its hash set and *)
(* the XEP-0115 key of its caps element, each in document order.           *)
Presences ==
    [k390 : {<<>>, <<K1>>, <<K1, K3>>, <<K3, K1>>}, k115 : {<<>>, <<K2>>}]

(* EntityCapsService.handle_outbound_presence(presence): put_keys for each *)
(* scheme that __current_keys has an entry for.                            *)
HandleOutboundPresence(type) ==
    /\ handled' = [dir |-> "out", type |-> type,
                   markers |-> IF type = "available"
                               THEN DOMAIN current_keys
                               ELSE {},
                   keys |-> <<>>, task |-> 0]
    /\ UNCHANGED <<current_keys, xep115_support, xep390_support, local_info,
                   mounted, mount_calls, unmount_calls, ver_changed, nupdates,
                   shut>>
    /\ UNCHANGED <<cacheVars, diskVars, loopVars, countVars, apiVars, dispVars>>

(* Implementation.extract_keys(presence): the keys of the scheme that the  *)
(* presence carries.                                                       *)
ExtractKeys(scheme, presence) ==
    IF scheme = "390" THEN presence.k390 ELSE presence.k115

(* The key list handle_inbound_presence builds. *)
InboundKeys115First(presence) ==
    (IF xep115_support THEN ExtractKeys("115", presence) ELSE <<>>)
    \o (IF xep390_support THEN ExtractKeys("390", presence) ELSE <<>>)

InboundKeys(presence) ==
    (IF xep390_support THEN ExtractKeys("390", presence) ELSE <<>>)
    \o (IF xep115_support THEN ExtractKeys("115", presence) ELSE <<>>)

(* EntityCapsService.handle_inbound_presence(presence).  With a key        *)
(* extracted, the lookup_info task is made, its first step scheduled, and  *)
(* the task handed to disco_client.set_info_future for the peer.           *)
HandleInboundPresence(type, presence) ==
    LET keys == InboundKeys(presence)
    IN  /\ ~Hung
        /\ IF keys # <<>>
           THEN \E t \in Tasks :
                   /\ tasks[t].pc = "new"
                   /\ \A u \in Tasks : u < t => tasks[u].pc # "new"
                   /\ tasks' = [tasks EXCEPT ![t] =
                                   [@ EXCEPT !.pc = "start", !.keys = keys]]
                   /\ ready' = Append(ready, [type |-> "step", id |-> t])
                   /\ handled' = [dir |-> "in", type |-> type,
                                  markers |-> {}, keys |-> keys, task |-> t]
           ELSE /\ handled' = [dir |-> "in", type |-> type, markers |-> {},
                               keys |-> keys, task |-> 0]
                /\ UNCHANGED <<tasks, ready>>
        /\ UNCHANGED <<current_keys, xep115_support, xep390_support,
                       local_info, mounted, mount_calls, unmount_calls,
                       ver_changed, nupdates, shut>>
        /\ UNCHANGED <<cacheVars, diskVars, futs, countVars, apiVars, dispVars>>

InitEngine ==
    /\ current_keys = [sc \in {} |-> {}]
    /\ xep115_support = TRUE
    /\ xep390_support = TRUE
    /\ local_info \in Infos
    /\ mounted = {}
    /\ mount_calls = [n \in Nodes |-> 0]
    /\ unmount_calls = [n \in Nodes |-> 0]
    /\ ver_changed = 0
    /\ nupdates = 0
    /\ handled = NoPresence
    /\ shut = FALSE

-----------------------------------------------------------------------------
(* TagDispatcher and the listeners *)

MaxOps == 4

Tags == {"tag1", "tag2"}
Data == {"d1", "d2"}

(* The callbacks an application hands to a listener: f returns a false     *)
(* value, g a true one.                                                    *)
Fns == {"f", "g"}
FnResult(fn) == fn = "g"

(* The listener classes: TagListener ("sync") is the one of this module,   *)
(* the oneshot and the asynchronous ones come with the application.        *)
Kinds == {"sync", "oneshot", "async", "async_oneshot"}

(* A listener: its class, its data callback and its error callback ("":    *)
(* none).                                                                  *)
Listeners == [kind : Kinds, ondata : Fns, onerror : Fns \cup {""}]
NoListener == [kind |-> "", ondata |-> "", onerror |-> ""]

(* TagListener(ondata, onerror=None) *)
TagListener(ondata, onerror) ==
    [kind |-> "sync", ondata |-> ondata, onerror |-> onerror]

(* A callback invocation: the tag of the listener that makes it, the       *)
(* channel, the callback and its argument.                                 *)
Invocation(tag, ch, fn, arg) == [tag |-> tag, ch |-> ch, fn |-> fn, arg |-> arg]

(* What a call of a listener method does: the invocations it makes inline, *)
(* the invocations it schedules with call_soon, and what it returns        *)
(* (a true value signals consumption).                                     *)
Did(inline, later, signal) ==
    [inline |-> inline, later |-> later, signal |-> signal]

(* TagListener.data(data): the callback runs inline and its result is      *)
(* dropped, the method returns None.                                       *)
TagListenerDataReturning(l, tag, data) ==
    Did(<<Invocation(tag, "data", l.ondata, data)>>, <<>>, FnResult(l.ondata))

TagListenerData(l, tag, data) ==
    Did(<<Invocation(tag, "data", l.ondata, data)>>, <<>>, FALSE)

(* TagListener.error(exc) *)
TagListenerError(l, tag, exc) ==
    IF l.onerror # ""
    THEN Did(<<Invocation(tag, "error", l.onerror, exc)>>, <<>>, FALSE)
    ELSE Did(<<>>, <<>>, FALSE)

(* OneshotTagListener: as TagListener, and both methods return True. *)
OneshotTagListenerData(l, tag, data) ==
    Did(<<Invocation(tag, "data", l.ondata, data)>>, <<>>, TRUE)

OneshotTagListenerError(l, tag, exc) ==
    IF l.onerror # ""
    THEN Did(<<Invocation(tag, "error", l.onerror, exc)>>, <<>>, TRUE)
    ELSE Did(<<>>, <<>>, TRUE)

(* AsyncTagListener: loop.call_soon(callback, value), returns a false      *)
(* value; OneshotAsyncTagListener: the same, returns True.                 *)
AsyncTagListenerDataInline(l, tag, data) ==
    Did(<<Invocation(tag, "data", l.ondata, data)>>, <<>>, FALSE)

AsyncTagListenerData(l, tag, data) ==
    Did(<<>>, <<Invocation(tag, "data", l.ondata, data)>>, FALSE)

AsyncTagListenerError(l, tag, exc) ==
    IF l.onerror # ""
    THEN Did(<<>>, <<Invocation(tag, "error", l.onerror, exc)>>, FALSE)
    ELSE Did(<<>>, <<>>, FALSE)

OneshotAsyncTagListenerData(l, tag, data) ==
    Did(<<>>, <<Invocation(tag, "data", l.ondata, data)>>, TRUE)

OneshotAsyncTagListenerError(l, tag, exc) ==
    IF l.onerror # ""
    THEN Did(<<>>, <<Invocation(tag, "error", l.onerror, exc)>>, TRUE)
    ELSE Did(<<>>, <<>>, TRUE)

(* cb.data(data) and l.error(exc): the method of the listener's class *)
ListenerData(l, tag, data) ==
    CASE l.kind = "sync" -> TagListenerData(l, tag, data)
      [] l.kind = "oneshot" -> OneshotTagListenerData(l, tag, data)
      [] l.kind = "async" -> AsyncTagListenerData(l, tag, data)
      [] OTHER -> OneshotAsyncTagListenerData(l, tag, data)

ListenerError(l, tag, exc) ==
    CASE l.kind = "sync" -> TagListenerError(l, tag, exc)
      [] l.kind = "oneshot" -> OneshotTagListenerError(l, tag, exc)
      [] l.kind = "async" -> AsyncTagListenerError(l, tag, exc)
      [] OTHER -> OneshotAsyncTagListenerError(l, tag, exc)

DispFrame ==
    UNCHANGED <<cacheVars, diskVars, loopVars, countVars, apiVars, engineVars>>

(* TagDispatcher.add_listener(tag, listener) *)
AddListenerOverwrite(tag, listener) ==
    /\ nops < MaxOps
    /\ nops' = nops + 1
    /\ listeners' = [listeners EXCEPT ![tag] = listener]
    /\ raised' = ""
    /\ signals' = <<>>
    /\ last' = [op |-> "add_listener", tag |-> tag, arg |-> ""]
    /\ UNCHANGED <<calls, sched>>
    /\ DispFrame

AddListener(tag, listener) ==
    /\ nops < MaxOps
    /\ nops' = nops + 1
    /\ IF listeners[tag] = NoListener
       THEN /\ listeners' = [listeners EXCEPT ![tag] = listener]
            /\ raised' = ""
       ELSE /\ raised' = "ValueError"
            /\ UNCHANGED listeners
    /\ signals' = <<>>
    /\ last' = [op |-> "add_listener", tag |-> tag, arg |-> ""]
    /\ UNCHANGED <<calls, sched>>
    /\ DispFrame

(* TagDispatcher.add_callback(tag, fn) *)
AddCallback(tag, fn) == AddListener(tag, TagListener(fn, ""))

(* TagDispatcher.unicast(tag, data): what cb.data(data) returns is not     *)
(* looked at.                                                              *)
UnicastLenient(tag, data) ==
    /\ nops < MaxOps
    /\ nops' = nops + 1
    /\ IF listeners[tag] = NoListener
       THEN /\ raised' = ""
            /\ signals' = <<>>
            /\ UNCHANGED <<calls, sched>>
       ELSE LET did == ListenerData(listeners[tag], tag, data)
            IN  /\ calls' = calls \o did.inline
                /\ sched' = sched \o did.later
                /\ signals' = <<[tag |-> tag, val |-> did.signal]>>
                /\ raised' = ""
    /\ last' = [op |-> "unicast", tag |-> tag, arg |-> data]
    /\ UNCHANGED listeners
    /\ DispFrame

Unicast(tag, data) ==
    /\ nops < MaxOps
    /\ nops' = nops + 1
    /\ IF listeners[tag] = NoListener
       THEN /\ raised' = "KeyError"
            /\ signals' = <<>>
            /\ UNCHANGED <<calls, sched>>
       ELSE LET did == ListenerData(listeners[tag], tag, data)
            IN  /\ calls' = calls \o did.inline
                /\ sched' = sched \o did.later
                /\ signals' = <<[tag |-> tag, val |-> did.signal]>>
                /\ raised' = ""
    /\ last' = [op |-> "unicast", tag |-> tag, arg |-> data]
    /\ UNCHANGED listeners
    /\ DispFrame

(* TagDispatcher.remove_listener(tag) *)
RemoveListener(tag) ==
    /\ nops < MaxOps
    /\ nops' = nops + 1
    /\ IF listeners[tag] = NoListener
       THEN /\ raised' = "KeyError"
            /\ UNCHANGED listeners
       ELSE /\ listeners' = [listeners EXCEPT ![tag] = NoListener]
            /\ raised' = ""
    /\ signals' = <<>>
    /\ last' = [op |-> "remove_listener", tag |-> tag, arg |-> ""]
    /\ UNCHANGED <<calls, sched>>
    /\ DispFrame

Registered == {tag \in Tags : listeners[tag] # NoListener}

(* The orders in which a dict can hand out the registered tags. *)
TagOrders ==
    {o \in [1..Cardinality(Registered) -> Registered] :
        \A i, j \in DOMAIN o : i # j => o[i] # o[j]}

(* The loop of broadcast_error over self._listeners.values(), from the     *)
(* i-th listener on: l.error(exc) for each, its result dropped.            *)
RECURSIVE ErrorCalls(_, _, _)
ErrorCalls(order, i, exc) ==
    IF i > Len(order) THEN [inline |-> <<>>, later |-> <<>>, signals |-> <<>>]
    ELSE LET did == ListenerError(listeners[order[i]], order[i], exc)
             rest == ErrorCalls(order, i + 1, exc)
         IN  [inline |-> did.inline \o rest.inline,
              later |-> did.later \o rest.later,
              signals |-> <<[tag |-> order[i], val |-> did.signal]>>
                             \o rest.signals]

(* TagDispatcher.broadcast_error(exc) *)
BroadcastError(exc) ==
    /\ nops < MaxOps
    /\ nops' = nops + 1
    /\ \E order \in TagOrders :
          LET did == ErrorCalls(order, 1, exc)
          IN  /\ calls' = calls \o did.inline
              /\ sched' = sched \o did.later
              /\ signals' = did.signals
    /\ raised' = ""
    /\ last' = [op |-> "broadcast_error", tag |-> "", arg |-> exc]
    /\ UNCHANGED listeners
    /\ DispFrame

(* TagDispatcher.close_all(exc) *)
CloseAllKeep(exc) ==
    /\ nops < MaxOps
    /\ nops' = nops + 1
    /\ \E order \in TagOrders :
          LET did == ErrorCalls(order, 1, exc)
          IN  /\ calls' = calls \o did.inline
              /\ sched' = sched \o did.later
              /\ signals' = did.signals
    /\ listeners' = [tag \in Tags |->
                        IF listeners[tag].kind \in {"oneshot", "async_oneshot"}
                        THEN NoListener ELSE listeners[tag]]
    /\ raised' = ""
    /\ last' = [op |-> "close_all", tag |-> "", arg |-> exc]
    /\ DispFrame

CloseAll(exc) ==
    /\ nops < MaxOps
    /\ nops' = nops + 1
    /\ \E order \in TagOrders :
          LET did == ErrorCalls(order, 1, exc)
          IN  /\ calls' = calls \o did.inline
              /\ sched' = sched \o did.later
              /\ signals' = did.signals
    /\ listeners' = [tag \in Tags |-> NoListener]
    /\ raised' = ""
    /\ last' = [op |-> "close_all", tag |-> "", arg |-> exc]
    /\ DispFrame

(* The event loop runs the callback an asynchronous listener scheduled     *)
(* first.                                                                  *)
RunScheduled ==
    /\ sched # <<>>
    /\ calls' = Append(calls, Head(sched))
    /\ sched' = Tail(sched)
    /\ UNCHANGED <<listeners, raised, nops, signals, last>>
    /\ DispFrame

InitDisp ==
    /\ listeners = [tag \in Tags |-> NoListener]
    /\ calls = <<>>
    /\ sched = <<>>
    /\ signals = <<>>
    /\ last = [op |-> "", tag |-> "", arg |-> ""]
    /\ raised = ""
    /\ nops = 0

-----
(* Specification of the cache under concurrent lookup_info calls *)

EmptyDir == [k \in Keys |-> 0]

(* What the store directories hold when the process starts: the system    *)
(* store has an entry for K1, the user store a stale entry for K2 that     *)
(* does not verify.                                                        *)
FsAtStart ==
    [p \in Paths |->
        IF p = "sysdir" THEN [EmptyDir EXCEPT ![K1] = 3]
        ELSE IF p = "userdir" THEN [EmptyDir EXCEPT ![K2] = 2]
        ELSE EmptyDir]

(* No lookup_info call has been made yet. *)
NoTaskYet == \A t \in Tasks : tasks[t].pc = "new"

InitCache ==
    /\ lookup_cache = [k \in Keys |-> 0]
    /\ memory_overlay = [k \in Keys |-> 0]
    /\ system_db_path = None
    /\ user_db_path = None

Init ==
    /\ InitCache
    /\ fs = FsAtStart
    /\ tmpfiles = {}
    /\ wbjobs = {}
    /\ wbdone = {}
    /\ futs = [t \in Tasks |-> NoFuture]
    /\ tasks = [t \in Tasks |-> NewTask]
    /\ ready = <<>>
    /\ nreconf = 0
    /\ ncancel = 0
    /\ dbres = NoRes
    /\ nadd = 0
    /\ InitEngine
    /\ local_info = 1
    /\ InitDisp

Next ==
    \/ \E t \in Tasks, keys \in KeyLists : StartLookup(t, keys)
    \/ RunErase
    \/ \E t \in Tasks : RunCoroutine(t)
    \/ \E t \in Tasks, data \in Infos : QueryRespond(t, data)
    \/ \E t \in Tasks : QueryFail(t)
    \/ \E t \in Tasks : RunQueryAndCache(t)
    \/ \E t \in Tasks : CancelWaiter(t)
    \/ \E p \in {"sysdir"} : NoTaskYet /\ SetSystemDbPath(p)
    \/ \E p \in {"userdir", "nodir"} : NoTaskYet /\ SetUserDbPath(p)
    \/ \E job \in wbjobs : ExecWriteback(job)

Spec == Init /\ [][Next]_vars

-----------------------------------------------------------------------------
(* Specification of the synchronous Cache API: store paths reconfigured at *)
(* any time, entries added and looked up by direct calls                   *)

FsStoreChoices ==
    { [p \in Paths |->
          IF p = "sysdir" THEN [EmptyDir EXCEPT ![K1] = a]
          ELSE IF p = "userdir" THEN [EmptyDir EXCEPT ![K1] = b, ![K2] = 2]
          ELSE EmptyDir] : a \in {0, 3}, b \in {0, 1} }

InitStore ==
    /\ InitCache
    /\ fs \in FsStoreChoices
    /\ tmpfiles = {}
    /\ wbjobs = {}
    /\ wbdone = {}
    /\ futs = [t \in Tasks |-> NoFuture]
    /\ tasks = [t \in Tasks |-> NewTask]
    /\ ready = <<>>
    /\ nreconf = 0
    /\ ncancel = 0
    /\ dbres = NoRes
    /\ nadd = 0
    /\ InitEngine
    /\ local_info = 1
    /\ InitDisp

NextStore ==
    \/ \E p \in Paths \cup {None} : SetSystemDbPath(p)
    \/ \E p \in Paths \cup {None} : SetUserDbPath(p)
    \/ \E k \in Keys : LookupInDatabaseCall(k)
    \/ \E k \in Keys, e \in Infos : AddCacheEntryCall(k, e)
    \/ \E job \in wbjobs : ExecWriteback(job)

SpecStore == InitStore /\ [][NextStore]_vars

-----------------------------------------------------------------------------
(* Specification of the durable write: entries added through the cache,    *)
(* and writeback called as its signature says                              *)

NextWriteback ==
    \/ \E p \in {"userdir", "nodir", None} : SetUserDbPath(p)
    \/ \E k \in Keys, e \in Infos : AddCacheEntryCall(k, e)
    \/ \E job \in wbjobs : ExecWriteback(job)
    \/ \E base \in {"userdir", "nodir"}, k \in Keys, e \in Infos :
           WritebackCall(base, k, e)

SpecWriteback == InitStore /\ [][NextWriteback]_vars

-----------------------------------------------------------------------------
(* Specification of the negotiation engine's key set *)

InitEngineSpec ==
    /\ InitCache
    /\ fs = FsAtStart
    /\ tmpfiles = {}
    /\ wbjobs = {}
    /\ wbdone = {}
    /\ futs = [t \in Tasks |-> NoFuture]
    /\ tasks = [t \in Tasks |-> NewTask]
    /\ ready = <<>>
    /\ nreconf = 0
    /\ ncancel = 0
    /\ dbres = NoRes
    /\ nadd = 0
    /\ InitEngine
    /\ InitDisp

NextEngine ==
    \/ UpdateHash
    \/ \E v \in BOOLEAN : SetXep115Support(v)
    \/ \E v \in BOOLEAN : SetXep390Support(v)
    \/ \E i \in Infos : InfoChanged(i)
    \/ Shutdown

SpecEngine == InitEngineSpec /\ [][NextEngine]_vars

-----------------------------------------------------------------------------
(* Specification of the presence filters: the flags are set, update_hash   *)
(* runs when the event loop gets to it, and presence goes out and comes in *)
(* in between                                                              *)

(* The presences that carry at most one key of each scheme. *)
SingleKeyPresences == {pr \in Presences : Len(pr.k390) <= 1}

NextPresence ==
    \/ UpdateHash
    \/ \E v \in BOOLEAN : SetXep115Support(v)
    \/ \E v \in BOOLEAN : SetXep390Support(v)
    \/ \E ty \in PresenceTypes : HandleOutboundPresence(ty)
    \/ \E ty \in PresenceTypes, pr \in SingleKeyPresences :
           HandleInboundPresence(ty, pr)

SpecPresence == InitEngineSpec /\ [][NextPresence]_vars

-----------------------------------------------------------------------------
(* Specification of the tag dispatcher *)

InitDispSpec ==
    /\ InitCache
    /\ fs = FsAtStart
    /\ tmpfiles = {}
    /\ wbjobs = {}
    /\ wbdone = {}
    /\ futs = [t \in Tasks |-> NoFuture]
    /\ tasks = [t \in Tasks |-> NewTask]
    /\ ready = <<>>
    /\ nreconf = 0
    /\ ncancel = 0
    /\ dbres = NoRes
    /\ nadd = 0
    /\ InitEngine
    /\ local_info = 1
    /\ InitDisp

(* The listeners the application registers with add_listener: callback f  *)
(* for the data, any error callback or none (add_callback registers the    *)
(* listeners whose data callback returns a true value).                    *)
ListenerChoices == {l \in Listeners : l.ondata = "f"}

NextDisp ==
    \/ \E tag \in Tags, l \in ListenerChoices : AddListener(tag, l)
    \/ \E tag \in Tags, fn \in Fns : AddCallback(tag, fn)
    \/ \E tag \in Tags, d \in Data : Unicast(tag, d)
    \/ \E tag \in Tags : RemoveListener(tag)
    \/ \E exc \in {"exc"} : BroadcastError(exc)
    \/ \E exc \in {"exc"} : CloseAll(exc)
    \/ RunScheduled

SpecDisp == InitDispSpec /\ [][NextDisp]_vars

-----------------------------------------------------------------------------
(* Specification of the resolution that inbound presence starts: the flags *)
(* are set before the first presence arrives, every presence with a key    *)
(* starts a lookup_info task, and the tasks run on the event loop          *)

NextInbound ==
    \/ \E v \in BOOLEAN : NoTaskYet /\ SetXep115Support(v)
    \/ \E v \in BOOLEAN : NoTaskYet /\ SetXep390Support(v)
    \/ \E ty \in {"available"}, pr \in Presences :
           HandleInboundPresence(ty, pr)
    \/ RunErase
    \/ \E t \in Tasks : RunCoroutine(t)
    \/ \E t \in Tasks, data \in Infos : QueryRespond(t, data)
    \/ \E t \in Tasks : QueryFail(t)
    \/ \E t \in Tasks : RunQueryAndCache(t)

SpecInbound == Init /\ [][NextInbound]_vars

-----------------------------------------------------------------------------
(* Properties *)

(* The step is a call of the dispatcher method op. *)
Called(op) == nops' = nops + 1 /\ last'.op = op

Started == {t \in Tasks : tasks[t].pc # "new"}
Ended == {t \in Tasks : tasks[t].pc \in {"done", "failed", "cancelled"}}
Queried == {t \in Tasks : futs[t].state # "none"}

(* C1: N concurrent lookup_info calls for the same single candidate key,   *)
(* each started while the key is in no store tier, issue at most one live  *)
(* query in total, also when the response fails verification, and all end  *)
(* with the same outcome: the same feature info for all, or the            *)
(* verification failure for all.  (Runs with a transport error or a        *)
(* cancellation are left aside.)                                           *)
C1_SingleFlight ==
    ( /\ \A t \in Started :
            tasks[t].keys = <<K1>> /\ tasks[t].cold /\ tasks[t].conc
      /\ ncancel = 0
      /\ \A t \in Tasks : tasks[t].resp # -1 )
    => /\ Cardinality(Queried) <= 1
       /\ \/ \A t \in Ended : tasks[t].pc = "failed" /\ tasks[t].err = "ValueError"
          \/ \A t, u \in Ended : /\ tasks[t].pc = "done"
                                 /\ tasks[t].res = tasks[u].res

C2_EraseStep ==
    RunErase =>
        LET f == Head(ready).id
            k == futs[f].key
        IN  /\ futs[f].state \notin {"none", "pending"}
            /\ lookup_cache[k] = f => lookup_cache'[k] = 0
            /\ lookup_cache[k] # f => lookup_cache'[k] = lookup_cache[k]
            /\ \A k2 \in Keys \ {k} : lookup_cache'[k2] = lookup_cache[k2]

C2_NotLeft ==
    \A f \in Tasks :
        futs[f].erased # "" => lookup_cache[futs[f].key] # f

(* C2: when a pending lookup future has settled, its done callback removes *)
(* it from the registry if and only if it is still the future registered   *)
(* for its key: a newer registration for the key is left in place, every   *)
(* other key's registration is untouched, and once the callback has run    *)
(* the settled future is no longer registered.                             *)
C2_EraseIffCurrent == []C2_NotLeft /\ [][C2_EraseStep]_vars

(* C2 witness: a future settled while a newer future was registered for    *)
(* its key; its callback has run and the newer future is still registered. *)
C2_Witness ==
    \E f, g \in Tasks :
        /\ f # g
        /\ futs[f].erased = "stale"
        /\ futs[g].state = "pending"
        /\ futs[g].key = futs[f].key
        /\ lookup_cache[futs[f].key] = g

(* C3: when the queried feature info does not verify against the queried   *)
(* key, the pending lookup is settled with the verification error and the  *)
(* resolution of the caller that issued the query fails: a lookup_info     *)
(* call that issued a query never returns feature info that does not       *)
(* verify against the queried key.                                         *)
C3_NoUnverifiedResult ==
    \A t \in Queried :
        ( /\ ncancel = 0
          /\ tasks[t].pc \in {"done", "failed"}
          /\ tasks[t].resp \in Infos
          /\ ~Verify(tasks[t].keys[1], tasks[t].resp) )
        => /\ futs[t].state = "exception"
           /\ tasks[t].pc = "failed"
           /\ tasks[t].res = 0

NewLookups(t) ==
    SubSeq(tasks'[t].lk, Len(tasks[t].lk) + 1, Len(tasks'[t].lk))

C4_Step(t) ==
    LET tk == tasks[t]
        new == NewLookups(t)
        failed == tk.pc = "wake_fut" /\ futs[tk.aw].state = "exception"
    IN  /\ \A i \in 1..Len(new) :
              /\ new[i].out # "ValueError"
              /\ new[i].out = "KeyError" => lookup_cache[new[i].key] = 0
        /\ tasks'[t].err # "ValueError"
        /\ tasks'[t].pc = "wait_fut" =>
              LET k == tk.keys[tasks'[t].idx]
              IN  /\ tasks'[t].aw = lookup_cache[k]
                  /\ futs[lookup_cache[k]].state = "pending"
                  /\ tasks'[t].aw \notin {0, t}
        /\ failed /\ lookup_cache[tk.keys[tk.idx]] = 0 =>
              /\ Len(new) >= 1
              /\ new[1] = [key |-> tk.keys[tk.idx], out |-> "KeyError"]
        /\ ( /\ failed
             /\ lookup_cache[tk.keys[tk.idx]] # 0
             /\ futs[lookup_cache[tk.keys[tk.idx]]].state = "pending" ) =>
              /\ tasks'[t].pc = "wait_fut"
              /\ tasks'[t].aw = lookup_cache[tk.keys[tk.idx]]
              /\ tasks'[t].idx = tk.idx

(* C4: Cache.lookup, on a store miss, waits on the pending future that is  *)
(* registered for the key; resumed with the verification failure of the    *)
(* future it waited on, it reads the registry again and waits on the       *)
(* pending future registered now; it raises KeyError only when no future   *)
(* is registered for the key, it does raise KeyError when the failed       *)
(* future left none registered, and the verification error never leaves    *)
(* lookup.                                                                 *)
C4_LookupNotFound == [][\A t \in Tasks : RunCoroutine(t) => C4_Step(t)]_vars

(* C4 witness: a task waited on a future that failed verification, found   *)
(* no future registered afterwards, got KeyError and went on to query.     *)
C4_Witness ==
    \E t \in Tasks :
        /\ tasks[t].aw # 0
        /\ futs[tasks[t].aw].state = "exception"
        /\ tasks[t].pc = "wait_query"
        /\ \E i \in 1..Len(tasks[t].lk) : tasks[t].lk[i].out = "KeyError"

TierEntry(i, key) ==
    CASE i = 1 -> memory_overlay[key]
      [] i = 2 -> IF system_db_path = None THEN 0 ELSE fs[system_db_path][key]
      [] OTHER -> IF user_db_path = None THEN 0 ELSE fs[user_db_path][key]

TiersHolding(key) == {i \in 1..3 : TierEntry(i, key) # 0}

C5_Step(key) ==
    /\ dbres'.key = key
    /\ TiersHolding(key) = {} => dbres'.val = 0
    /\ \A i \in TiersHolding(key) :
          (\A j \in TiersHolding(key) : i <= j) => dbres'.val = TierEntry(i, key)
    /\ UNCHANGED <<cacheVars, diskVars, loopVars>>

(* C5: lookup_in_database(key) returns the entry of the first tier that    *)
(* holds the key in the order memory overlay, system store, user store; a  *)
(* store that is not configured or whose file cannot be opened is a miss;  *)
(* it raises KeyError only when no tier holds the key; it changes nothing. *)
C5_TierOrder == [][\A k \in Keys : LookupInDatabaseCall(k) => C5_Step(k)]_vars

(* C5 witness: a key held by the system store and, with another content,   *)
(* by the user store, and not by the overlay, was looked up: the system    *)
(* store's entry was returned.                                             *)
C5_Witness ==
    /\ dbres.key = K1
    /\ memory_overlay[K1] = 0
    /\ system_db_path # None
    /\ user_db_path # None
    /\ fs[system_db_path][K1] # 0
    /\ fs[user_db_path][K1] # 0
    /\ fs[user_db_path][K1] # fs[system_db_path][K1]
    /\ dbres.val = fs[system_db_path][K1]

C7_Unchanged ==
    [][UpdateHash /\ current_keys = NewKeys =>
          UNCHANGED <<ver_changed, mounted, mount_calls, unmount_calls,
                      current_keys>>]_vars

(* C7 witness: update_hash has run twice on non-empty key sets and has     *)
(* notified once.                                                          *)
C7_Witness ==
    /\ nupdates = 2
    /\ ver_changed = 1
    /\ mounted # {}
    /\ current_keys = NewKeys

SystemHas(key) == system_db_path # None /\ fs[system_db_path][key] # 0

C9_WaiterCancelKeepsFuture ==
    [][\A t \in Tasks :
          CancelWaiter(t) => futs'[tasks[t].aw].state = "pending"]_vars

(* C10: add_listener (and add_callback) for a tag that has a listener      *)
(* raises ValueError and leaves the registry as it is; the listener that   *)
(* is registered for a tag is the one a unicast to the tag invokes.        *)
C10_DuplicateRejected ==
    [][/\ Called("add_listener") /\ listeners[last'.tag] # NoListener =>
             /\ listeners' = listeners
             /\ raised' = "ValueError"
             /\ calls' = calls
             /\ sched' = sched
       /\ Called("unicast") /\ listeners[last'.tag] # NoListener =>
             LET inv == Invocation(last'.tag, "data",
                                   listeners[last'.tag].ondata, last'.arg)
             IN  /\ \/ (calls' = Append(calls, inv) /\ sched' = sched)
                     \/ (sched' = Append(sched, inv) /\ calls' = calls)
                 /\ raised' = ""]_vars

(* C10 witness: a second registration for a tag has just been rejected and *)
(* the tag's listener is registered.                                       *)
C10_Witness ==
    /\ raised = "ValueError"
    /\ \E tag \in Tags : listeners[tag] # NoListener

-----------------------------------------------------------------------------
(* Properties of the durable write *)

(* The lookup_info calls that resolved their first key by a live query     *)
(* whose response verified.                                                *)
ResolvedByQuery ==
    {t \in Queried : /\ futs[t].state = "result"
                     /\ tasks[t].resp \in Infos
                     /\ Verify(futs[t].key, tasks[t].resp)}

(* C16: once the pending future of a live query is settled with a verified *)
(* result, the key is in the memory overlay and, with a user store         *)
(* configured, the durable write of the entry has been scheduled; when the *)
(* scheduled write has run in the user store's directory without an I/O    *)
(* error, the user store holds a verified entry for the key.               *)
C16_WritebackScheduled ==
    \A t \in ResolvedByQuery :
        /\ memory_overlay[futs[t].key] # 0
        /\ user_db_path # None =>
               \/ \E job \in wbjobs : job.id = t
               \/ \E d \in wbdone : d.id = t
        /\ \A d \in wbdone :
               ( /\ d.id = t
                 /\ d.dir = "userdir"
                 /\ d.outcome \notin {"OSError", "error"} )
               => Verify(futs[t].key, fs["userdir"][futs[t].key])

(* What the Cache.lookup calls of task t have ended with so far: one      *)
(* call per candidate key, in list order, each of the first n - 1 with     *)
(* KeyError.                                                               *)
MissedInOrder(t, n) ==
    /\ n <= Len(tasks[t].keys)
    /\ Len(tasks[t].lk) >= n - 1
    /\ \A j \in 1..(n - 1) :
           /\ tasks[t].lk[j].key = tasks[t].keys[j]
           /\ tasks[t].lk[j].out = "KeyError"

C17_Hits ==
    \A t \in Tasks :
        /\ (tasks[t].pc = "done" /\ t \notin Queried) =>
               LET n == Len(tasks[t].lk)
               IN  /\ n >= 1
                   /\ MissedInOrder(t, n)
                   /\ tasks[t].lk[n].key = tasks[t].keys[n]
                   /\ tasks[t].lk[n].out \in {"hit", "result"}
                   /\ tasks[t].res # 0
        /\ t \in Queried =>
               /\ Len(tasks[t].lk) = Len(tasks[t].keys)
               /\ MissedInOrder(t, Len(tasks[t].keys) + 1 - 1)
               /\ tasks[t].lk[Len(tasks[t].keys)].out = "KeyError"
               /\ tasks[t].lk[Len(tasks[t].keys)].key
                      = tasks[t].keys[Len(tasks[t].keys)]

C17_OverlayStep ==
    \A t \in Tasks :
        ( /\ RunCoroutine(t)
          /\ tasks[t].pc = "start"
          /\ memory_overlay[tasks[t].keys[1]] # 0 )
        => /\ tasks'[t].pc = "done"
           /\ tasks'[t].res = memory_overlay[tasks[t].keys[1]]
           /\ futs' = futs
           /\ lookup_cache' = lookup_cache

(* C17: lookup_info runs Cache.lookup for the candidate keys in list order *)
(* and returns the first hit (a store entry or the result of a pending     *)
(* future) without a live query; it issues the live query only after every *)
(* candidate key has missed; and a first key that is in the memory overlay *)
(* is returned from the overlay at once, with no suspension and no query.  *)
C17_FirstHit == []C17_Hits /\ [][C17_OverlayStep]_vars

(* C17 witness: a call with two candidate keys missed the first one and    *)
(* has returned the store entry of the second without a live query.        *)
C17_Witness ==
    \E t \in Tasks :
        /\ tasks[t].pc = "done"
        /\ t \notin Queried
        /\ Len(tasks[t].keys) = 2
        /\ Len(tasks[t].lk) = 2
        /\ tasks[t].lk[1].out = "KeyError"
        /\ tasks[t].lk[2].out = "hit"

(* The durable writes that have failed. *)
FailedWrites == {d \in wbdone : d.outcome # "ok"}

C19_NoTempLeft ==
    \A d \in FailedWrites : \A f \in tmpfiles : f.id # d.id

C19_FailureStep ==
    FailedWrites' # FailedWrites
        => /\ fs' = fs
           /\ memory_overlay' = memory_overlay
           /\ wbjobs' \subseteq wbjobs

(* C19: a durable write that fails, while generating the content into the  *)
(* temporary file or while renaming it into place, leaves no temporary     *)
(* file in the store directory, leaves every durable entry as it was and   *)
(* changes neither the memory overlay nor anything else of the cache.      *)
C19_AtomicWrite == []C19_NoTempLeft /\ [][C19_FailureStep]_vars

-----------------------------------------------------------------------------
(* Properties of the pending futures *)

(* C22: a future that lookup_info has registered is settled by the time    *)
(* its creator has ended, also when query_info raised a transport or       *)
(* timeout error: it does not stay pending, so no caller stays suspended   *)
(* on it.                                                                  *)
C22_CreatorSettles ==
    \A t \in Queried :
        tasks[t].pc \in {"done", "failed", "cancelled"}
            => futs[t].state # "pending"

(* C23: lookup_info calls create_query_future only for a key that has no   *)
(* pending future registered: no registered pending future is overwritten  *)
(* and at most one live query per key is in flight.                        *)
C23_NoOverwrite ==
    [][\A t \in Tasks :
          ( /\ RunCoroutine(t)
            /\ futs[t].state = "none"
            /\ futs'[t].state = "pending" )
          => LET key == futs'[t].key
             IN  \/ lookup_cache[key] = 0
                 \/ futs[lookup_cache[key]].state # "pending"]_vars

(* The entries of the memory overlay and the entries handed to writeback   *)
(* verify against their keys.                                              *)
C24_JobsVerify ==
    \A job \in wbjobs :
        Verify(job.args[1].path, job.args[Len(job.args)])

(* C24: every entry of the memory overlay verifies against the key it is   *)
(* stored under, and so does every entry scheduled for the user store: a   *)
(* query response that fails verification is never cached.                 *)
C24_OverlayVerified ==
    /\ \A k \in Keys :
           memory_overlay[k] # 0 => Verify(k, memory_overlay[k])
    /\ C24_JobsVerify

(* C24 witness: the query for a key failed verification, and a later call  *)
(* for the same key, started after the first had ended, has queried again  *)
(* and cached the verified entry.                                          *)
C24_Witness ==
    \E t, u \in Queried :
        /\ futs[t].state = "exception"
        /\ futs[u].state = "result"
        /\ futs[u].key = futs[t].key
        /\ ~tasks[u].conc
        /\ memory_overlay[futs[u].key] = tasks[u].resp
        /\ user_db_path # None

-----------------------------------------------------------------------------
(* Properties of the mounted nodes *)

(* C25: when update_hash returns, the nodes mounted on the disco server    *)
(* are the nodes of the keys in __current_keys; when _shutdown returns,    *)
(* none of the nodes the engine mounted is mounted.                        *)
C25_MountedNodes ==
    [][/\ (UpdateHash /\ ~shut) => mounted' = NodesOf(current_keys')
       /\ Shutdown => mounted' = {}]_vars

(* C25 witness: after a flag change made update_hash replace the key set,  *)
(* _shutdown has run with nodes mounted and has unmounted them.            *)
C25_Witness ==
    /\ shut
    /\ mounted = {}
    /\ NodesOf(current_keys) # {}
    /\ ~xep115_support
    /\ "115" \notin DOMAIN current_keys
    /\ \E n \in Nodes : mount_calls[n] = 2 /\ unmount_calls[n] = 2

-----------------------------------------------------------------------------
(* Properties of the presence filters *)

(* C18: while the enable flag of a scheme is false, no marker of the       *)
(* scheme is put on an outbound presence and no key of the scheme is       *)
(* extracted from an inbound presence or handed to lookup_info; and an     *)
(* outbound presence that is not of type available gets no marker.         *)
C18_FlagsGovern ==
    [][/\ \A ty \in PresenceTypes :
             HandleOutboundPresence(ty) =>
                 /\ \A sc \in Schemes :
                        ~Support(sc) => sc \notin handled'.markers
                 /\ ty # "available" => handled'.markers = {}
       /\ \A ty \in PresenceTypes, pr \in SingleKeyPresences :
             HandleInboundPresence(ty, pr) =>
                 /\ \A sc \in Schemes, i \in DOMAIN handled'.keys :
                        ~Support(sc) => handled'.keys[i].scheme # sc
                 /\ \A t \in Tasks :
                        tasks'[t] # tasks[t] =>
                            \A sc \in Schemes, i \in DOMAIN tasks'[t].keys :
                                ~Support(sc) => tasks'[t].keys[i].scheme # sc
      ]_vars

Is390(key) == key.scheme = "390"
Is115(key) == key.scheme = "115"

C21_InboundStep ==
    \A pr \in Presences :
        HandleInboundPresence("available", pr) =>
            LET keys == handled'.keys
                made == {t \in Tasks : tasks'[t] # tasks[t]}
            IN  /\ \A i, j \in DOMAIN keys :
                       i < j => ~(Is115(keys[i]) /\ Is390(keys[j]))
                /\ SelectSeq(keys, Is390)
                       = IF xep390_support THEN pr.k390 ELSE <<>>
                /\ SelectSeq(keys, Is115)
                       = IF xep115_support THEN pr.k115 ELSE <<>>
                /\ keys = <<>> =>
                       /\ made = {}
                       /\ ready' = ready
                       /\ handled'.task = 0
                /\ keys # <<>> =>
                       /\ Cardinality(made) = 1
                       /\ \A t \in made :
                              /\ tasks[t].pc = "new"
                              /\ tasks'[t].pc = "start"
                              /\ tasks'[t].keys = keys
                              /\ handled'.task = t
                              /\ ready' = Append(ready,
                                                 [type |-> "step", id |-> t])

C21_QueryFirstKey ==
    \A t \in Queried :
        /\ futs[t].key = tasks[t].keys[1]
        /\ \A k \in Keys : lookup_cache[k] = t => k = tasks[t].keys[1]

(* C21: handle_inbound_presence lists the XEP-0390 keys of the presence,   *)
(* in their order, before its XEP-0115 keys, in their order; with no key   *)
(* it starts no task and registers no info future; with a key it starts    *)
(* exactly one lookup_info task for the list; and the live query of a task *)
(* is made for the first key of its list and for no other.                 *)
C21_InboundKeyOrder == []C21_QueryFirstKey /\ [][C21_InboundStep]_vars

(* C21 witness: a presence with two XEP-0390 keys and a XEP-0115 key has   *)
(* started a resolution whose candidates all missed, and the live query    *)
(* was made for the first XEP-0390 key.                                    *)
C21_Witness ==
    \E t \in Queried :
        /\ tasks[t].keys = <<K3, K1, K2>>
        /\ futs[t].key = K3
        /\ handled.task = t

-----------------------------------------------------------------------------
(* Properties of the dispatcher *)

(* The invocations a step adds: those made inline and those scheduled. *)
NewCalls == SubSeq(calls', Len(calls) + 1, Len(calls'))
NewSched == SubSeq(sched', Len(sched) + 1, Len(sched'))
NewInvocations == NewCalls \o NewSched

Range(seq) == {seq[i] : i \in DOMAIN seq}
CountOf(seq, x) == Cardinality({i \in DOMAIN seq : seq[i] = x})

(* The listener signals consumption on its data channel: it is a oneshot   *)
(* listener, or its callback runs inline and returns a true value.         *)
ConsumesData(l) ==
    \/ l.kind \in {"oneshot", "async_oneshot"}
    \/ l.kind = "sync" /\ FnResult(l.ondata)

(* The same for the error channel. *)
ConsumesError(l) ==
    \/ l.kind \in {"oneshot", "async_oneshot"}
    \/ l.kind = "sync" /\ l.onerror # "" /\ FnResult(l.onerror)

(* C11: a unicast that delivers to a listener which signals consumption    *)
(* (a oneshot listener, or a callback returning a true value) makes        *)
(* exactly one invocation of its callback and removes the listener, so     *)
(* that the tag is unknown to the next unicast.                            *)
C11_ConsumedRemoved ==
    [][( /\ Called("unicast")
         /\ listeners[last'.tag] # NoListener
         /\ ConsumesData(listeners[last'.tag]) )
       => /\ Len(NewInvocations) = 1
          /\ listeners'[last'.tag] = NoListener]_vars

(* C12: broadcast_error delivers the error exactly once to every listener  *)
(* registered when it starts, invokes no data callback, and afterwards     *)
(* exactly the listeners that signalled consumption are removed.           *)
C12_BroadcastRemovesConsumed ==
    [][Called("broadcast_error")
       => /\ \A tag \in Registered :
                 /\ Cardinality({i \in DOMAIN signals' :
                                    signals'[i].tag = tag}) = 1
                 /\ listeners[tag].onerror # "" =>
                        CountOf(NewInvocations,
                                Invocation(tag, "error",
                                           listeners[tag].onerror,
                                           last'.arg)) = 1
          /\ \A c \in Range(NewInvocations) : c.ch = "error"
          /\ listeners' =
                 [tag \in Tags |->
                     IF ConsumesError(listeners[tag]) THEN NoListener
                     ELSE listeners[tag]]]_vars

(* C13: close_all delivers the error exactly once to the error channel of  *)
(* every registered listener, whatever its kind and whatever it signals,   *)
(* invokes no data callback and leaves the registry empty: a unicast or    *)
(* remove_listener that follows fails with KeyError for every tag.         *)
C13_CloseAll ==
    [][/\ Called("close_all")
          => /\ \A tag \in Registered :
                    /\ Cardinality({i \in DOMAIN signals' :
                                       signals'[i].tag = tag}) = 1
                    /\ listeners[tag].onerror # "" =>
                           CountOf(NewInvocations,
                                   Invocation(tag, "error",
                                              listeners[tag].onerror,
                                              last'.arg)) = 1
             /\ Len(signals') = Cardinality(Registered)
             /\ Len(NewInvocations) =
                    Cardinality({tag \in Registered :
                                    listeners[tag].onerror # ""})
             /\ \A c \in Range(NewInvocations) : c.ch = "error"
             /\ Registered' = {}
       /\ ( /\ last.op = "close_all"
            /\ Called("unicast") \/ Called("remove_listener") )
          => /\ raised' = "KeyError"
             /\ NewInvocations = <<>>]_vars

(* C13 witness: close_all has just run on a registry that held a           *)
(* persistent and a oneshot listener, and each got the error once.         *)
C13_Witness ==
    /\ last.op = "close_all"
    /\ Registered = {}
    /\ Len(signals) = 2
    /\ \E i, j \in DOMAIN signals : signals[i].val /\ ~signals[j].val
    /\ Len(calls) + Len(sched) = 2

(* C14: unicast and remove_listener on a tag without listener raise        *)
(* KeyError, invoke no callback and leave the registry as it is; a         *)
(* successful remove_listener removes the tag's listener and only that,    *)
(* and a unicast on the tag right after it invokes nothing.                *)
C14_UnknownTag ==
    [][/\ ( /\ Called("unicast") \/ Called("remove_listener")
            /\ listeners[last'.tag] = NoListener )
          => /\ raised' = "KeyError"
             /\ NewInvocations = <<>>
             /\ listeners' = listeners
       /\ ( /\ Called("remove_listener")
            /\ listeners[last'.tag] # NoListener )
          => /\ raised' = ""
             /\ NewInvocations = <<>>
             /\ listeners' = [listeners EXCEPT ![last'.tag] = NoListener]
       /\ ( /\ last.op = "remove_listener"
            /\ raised = ""
            /\ Called("unicast")
            /\ last'.tag = last.tag )
          => /\ raised' = "KeyError"
             /\ NewInvocations = <<>>]_vars

(* C14 witness: a listener was registered and removed, and the unicast on  *)
(* its tag that followed has raised KeyError without invoking anything.    *)
C14_Witness ==
    /\ nops = 3
    /\ last.op = "unicast"
    /\ raised = "KeyError"
    /\ calls = <<>>
    /\ sched = <<>>
    /\ listeners[last.tag] = NoListener

C20_AsyncListeners ==
    [][/\ ( /\ Called("unicast")
            /\ listeners[last'.tag].kind \in {"async", "async_oneshot"} )
          => /\ calls' = calls
             /\ sched' = Append(sched,
                                Invocation(last'.tag, "data",
                                           listeners[last'.tag].ondata,
                                           last'.arg))
             /\ signals' = <<[tag |-> last'.tag,
                              val |-> listeners[last'.tag].kind
                                          = "async_oneshot"]>>
       /\ Called("broadcast_error")
          => \A tag \in Tags :
                 listeners[tag].kind \in {"async", "async_oneshot"} =>
                     /\ \A c \in Range(NewCalls) : c.tag # tag
                     /\ CountOf(NewSched,
                                Invocation(tag, "error",
                                           listeners[tag].onerror,
                                           last'.arg))
                            = IF listeners[tag].onerror # "" THEN 1 ELSE 0
                     /\ \A c \in Range(NewSched) :
                            c.tag = tag => c.ch = "error"
                     /\ \A i \in DOMAIN signals' :
                            signals'[i].tag = tag =>
                                signals'[i].val
                                    = (listeners[tag].kind = "async_oneshot")
       /\ (nops' = nops /\ sched # <<>>)
          => /\ calls' = Append(calls, Head(sched))
             /\ sched' = Tail(sched)]_vars

(* C20 witness: both asynchronous variants were delivered to, nothing ran  *)
(* inline, and the event loop has then run the first scheduled callback.   *)
C20_Witness ==
    /\ Len(calls) = 1
    /\ Len(sched) = 1
    /\ calls[1].tag # sched[1].tag
    /\ \E tag \in Tags : listeners[tag].kind = "async"
    /\ nops = 4

====
